---- MODULE Spec2Model ----
(***************************************************************************)
(* Model of src/src/data_structure/roaring_bitmap.rs: a Roaring bitmap     *)
(* over unsigned integers, split into a high "key" and a low "value",      *)
(* each key owning an Array container (sorted vector) or a Bitmap          *)
(* container (BITMAP_SIZE words of U64_BITS bits plus a cached             *)
(* cardinality).                                                           *)
(*                                                                         *)
(* The three size constants of the source are scaled down so that both     *)
(* representations, the upgrade threshold and multi-word bitmaps are all   *)
(* reached in a finite search:                                             *)
(*   ARRAY_MAX_SIZE 4096 -> 3, BITMAP_SIZE 1024 -> 2, U64_BITS 64 -> 2.    *)
(* A container therefore holds values 0 .. BITMAP_SIZE*U64_BITS-1 (65536   *)
(* values in the source, where BITMAP_SIZE*U64_BITS = 2^16 too), and a     *)
(* number n splits into key n \div 4 and value n % 4.                      *)
(*                                                                         *)
(* A panic (unwrap of None, index of a missing map key) is a value of its  *)
(* own: a container of kind "Panic", a bitmap with panic = TRUE.           *)
(***************************************************************************)
EXTENDS Integers, Sequences, FiniteSets, TLC

\* roaring_bitmap.rs:6, scaled from 4096
ARRAY_MAX_SIZE == 3
\* roaring_bitmap.rs:7, scaled from 1024
BITMAP_SIZE == 2
\* roaring_bitmap.rs:8, scaled from 64
U64_BITS == 2

\* keys are 0 .. MaxKey
MaxKey == 1
\* number of mutating calls (add, remove, remove_range, from_range, move of a
\* result into an operand) in one behaviour
MaxOps == 3

\* width of usize, scaled from 64 (roaring_bitmap.rs:855, cardinality: usize)
USIZE_BITS == 10
\* the vectors given to from_iter have this many items
IterLen == 2
\* the ranges given to from_range and remove_range have this many numbers
RangeLen == 3

\* how often next() is called on an iterator that has returned None
MaxNones == 2

\* number of values of one container: 2^U16_BITS in the source,
\* which is BITMAP_SIZE * U64_BITS there as well (1024 * 64 = 65536)
ContainerSize == BITMAP_SIZE * U64_BITS
Keys == 0 .. MaxKey
Values == 0 .. (ContainerSize - 1)
Numbers == 0 .. ((MaxKey + 1) * ContainerSize - 1)

\* Option::None for Option<u16> / Option<u32> results
None == -1

\* compute_u32!(key, value): (key << 16) + value
compute_u32(key, value) == key * ContainerSize + value

\* RoaringBitmap::split_into_key_value: (number >> 16, number & 0xffff)
split_into_key_value(number) ==
    [key |-> number \div ContainerSize, value |-> number % ContainerSize]

-----------------------------------------------------------------------------
(* u64 words: integers 0 .. 2^U64_BITS - 1 and their bit operations          *)

Pow2(i) == 2 ^ i

\* bucket & (1 << j) != 0
BitSet(word, j) == (word \div Pow2(j)) % 2 = 1

RECURSIVE WordFromBits(_, _)
\* the word whose bit j (j < n) is set iff P[j]
WordFromBits(P, n) ==
    IF n = 0 THEN 0
    ELSE WordFromBits(P, n - 1) + (IF P[n - 1] THEN Pow2(n - 1) ELSE 0)

\* a | b
BitOr(a, b) == WordFromBits([j \in 0 .. (U64_BITS - 1) |-> BitSet(a, j) \/ BitSet(b, j)], U64_BITS)
\* a & b
BitAnd(a, b) == WordFromBits([j \in 0 .. (U64_BITS - 1) |-> BitSet(a, j) /\ BitSet(b, j)], U64_BITS)
\* a ^ b
BitXor(a, b) == WordFromBits([j \in 0 .. (U64_BITS - 1) |-> BitSet(a, j) # BitSet(b, j)], U64_BITS)
\* a & !b
BitAndNot(a, b) == WordFromBits([j \in 0 .. (U64_BITS - 1) |-> BitSet(a, j) /\ ~BitSet(b, j)], U64_BITS)

\* u64::count_ones
count_ones(word) == Cardinality({j \in 0 .. (U64_BITS - 1) : BitSet(word, j)})

\* u64::leading_zeros of a non-zero word
leading_zeros(word) ==
    (U64_BITS - 1) - (CHOOSE j \in 0 .. (U64_BITS - 1) :
                        BitSet(word, j) /\ \A k \in (j + 1) .. (U64_BITS - 1) : ~BitSet(word, k))

-----------------------------------------------------------------------------
(* sequences                                                                 *)

RECURSIVE SeqSum(_)
SeqSum(s) == IF s = <<>> THEN 0 ELSE Head(s) + SeqSum(Tail(s))

\* the elements of a sequence
Elems(s) == {s[i] : i \in 1 .. Len(s)}

\* a finite set of numbers as the ascending vector (BTreeSet iteration,
\* Vec::sort of distinct values)
RECURSIVE SortedSeq(_)
SortedSeq(S) ==
    IF S = {} THEN <<>>
    ELSE LET m == CHOOSE x \in S : \A y \in S : x <= y
         IN <<m>> \o SortedSeq(S \ {m})

\* slice::binary_search on a sorted vector: Ok(index of the value) or
\* Err(index where it would be inserted)
binary_search(array, value) ==
    IF \E i \in 1 .. Len(array) : array[i] = value
    THEN [ok |-> TRUE, idx |-> (CHOOSE i \in 1 .. Len(array) : array[i] = value) - 1]
    ELSE [ok |-> FALSE, idx |-> Cardinality({i \in 1 .. Len(array) : array[i] < value})]

\* Vec::insert(idx, value), idx counted from 0
\* Vec::insert that ignores the index and appends
VecInsert_at_end(array, idx, value) == Append(array, value)

VecInsert(array, idx, value) ==
    SubSeq(array, 1, idx) \o <<value>> \o SubSeq(array, idx + 1, Len(array))

\* Vec::remove(idx), idx counted from 0
VecRemove(array, idx) ==
    SubSeq(array, 1, idx) \o SubSeq(array, idx + 2, Len(array))

\* Vec::sort of a vector of numbers (ascending), by insertion
RECURSIVE VecSortInsert(_, _)
VecSortInsert(s, x) ==
    IF s = <<>> THEN <<x>>
    ELSE IF x <= Head(s) THEN <<x>> \o s
    ELSE <<Head(s)>> \o VecSortInsert(Tail(s), x)

RECURSIVE VecSort(_)
VecSort(s) == IF s = <<>> THEN <<>> ELSE VecSortInsert(VecSort(Tail(s)), Head(s))

-----------------------------------------------------------------------------
(* ArrayContainer { array: Vec<u16> }, as a Container::Array                 *)

PanicContainer == [kind |-> "Panic"]

ArrayOf(array) == [kind |-> "Array", array |-> array]

\* ArrayContainer::new
ArrayContainer_new == ArrayOf(<<>>)

\* ArrayContainer::cardinality
ArrayContainer_cardinality(self) == Len(self.array)

\* ArrayContainer::should_upgrade
\* should_upgrade with > in the place of >=
ArrayContainer_should_upgrade_late(self) == Len(self.array) > ARRAY_MAX_SIZE

ArrayContainer_should_upgrade(self) == ArrayContainer_cardinality(self) >= ARRAY_MAX_SIZE

\* ArrayContainer::add: [c: the container after the call, r: the value returned]
ArrayContainer_add(self, value) ==
    LET p == binary_search(self.array, value)
    IN IF p.ok THEN [c |-> self, r |-> FALSE]
       ELSE [c |-> ArrayOf(VecInsert(self.array, p.idx, value)), r |-> TRUE]

\* ArrayContainer::remove
ArrayContainer_remove(self, value) ==
    LET p == binary_search(self.array, value)
    IN IF p.ok THEN [c |-> ArrayOf(VecRemove(self.array, p.idx)), r |-> TRUE]
       ELSE [c |-> self, r |-> FALSE]

RECURSIVE batch_remove_loop(_, _, _, _)
\* the while loop of ArrayContainer::batch_remove; set_ref holds the indexes
\* still to be removed, the next one to pop first; indexes count from 0
batch_remove_loop(array, idx, offset, set_ref) ==
    IF idx + offset < Len(array)
    THEN IF set_ref # <<>> /\ Head(set_ref) - offset = idx
         THEN batch_remove_loop(array, idx, offset + 1, Tail(set_ref))
         ELSE batch_remove_loop([array EXCEPT ![idx + 1] = array[idx + offset + 1]],
                                idx + 1, offset, set_ref)
    ELSE SubSeq(array, 1, idx)

\* ArrayContainer::batch_remove: sort_unstable_by descending and pop from the
\* back, which is the ascending vector read from the front
batch_remove(array, to_be_removed) ==
    IF to_be_removed # <<>>
    THEN LET set_ref == VecSort(to_be_removed)
         IN batch_remove_loop(array, Head(set_ref), 1, Tail(set_ref))
    ELSE array

\* the positions found by the binary searches of ArrayContainer::remove_values
hit_positions(array, values) ==
    LET hits == SelectSeq(values, LAMBDA v : binary_search(array, v).ok)
    IN [i \in 1 .. Len(hits) |-> binary_search(array, hits[i]).idx]

\* ArrayContainer::remove_values
ArrayContainer_remove_values(self, values) ==
    LET to_be_removed == hit_positions(self.array, values)
    IN [c |-> ArrayOf(batch_remove(self.array, to_be_removed)), r |-> Len(to_be_removed)]

\* ArrayContainer::iter, as the vector of the items it yields
ArrayContainer_iter(self) == self.array

\* ArrayContainer::contains
ArrayContainer_contains(self, value) == binary_search(self.array, value).ok

\* ArrayContainer::is_empty
ArrayContainer_is_empty(self) == ArrayContainer_cardinality(self) = 0

\* ArrayContainer::minimum
ArrayContainer_minimum(self) == IF self.array = <<>> THEN None ELSE self.array[1]

\* ArrayContainer::maximum
ArrayContainer_maximum(self) == IF self.array = <<>> THEN None ELSE self.array[Len(self.array)]

-----------------------------------------------------------------------------
(* BitmapContainer { bitmap: Vec<u64>, cardinality: usize }                  *)

BitmapOf(bitmap, cardinality) ==
    [kind |-> "Bitmap", bitmap |-> bitmap, cardinality |-> cardinality]

\* BitmapContainer::new
BitmapContainer_new == BitmapOf([i \in 1 .. BITMAP_SIZE |-> 0], 0)

\* BitmapContainer::find_position_in_bitmap
find_position_in_bitmap(key) ==
    [bucket |-> key \div U64_BITS, idx_inside_bucket |-> key % U64_BITS]

\* BitmapContainer::is_one_at_position
is_one_at_position(self, bucket, idx_inside_bucket) ==
    BitSet(self.bitmap[bucket + 1], idx_inside_bucket)

\* BitmapContainer::add
BitmapContainer_add(self, value) ==
    LET p == find_position_in_bitmap(value)
        not_exist == ~is_one_at_position(self, p.bucket, p.idx_inside_bucket)
        word == BitOr(self.bitmap[p.bucket + 1], Pow2(p.idx_inside_bucket))
    IN [c |-> BitmapOf([self.bitmap EXCEPT ![p.bucket + 1] = word],
                       IF not_exist THEN self.cardinality + 1 ELSE self.cardinality),
        r |-> not_exist]

\* mutant of BitmapContainer::remove: the bit is left set
BitmapContainer_remove_keep_bit(self, value) ==
    LET p == find_position_in_bitmap(value)
    IN [c |-> self, r |-> is_one_at_position(self, p.bucket, p.idx_inside_bucket)]

\* BitmapContainer::remove: the bit is cleared, the cached cardinality is
\* left as it was
BitmapContainer_remove(self, value) ==
    LET p == find_position_in_bitmap(value)
    IN IF is_one_at_position(self, p.bucket, p.idx_inside_bucket)
       THEN [c |-> BitmapOf([self.bitmap EXCEPT ![p.bucket + 1] =
                                BitAndNot(self.bitmap[p.bucket + 1], Pow2(p.idx_inside_bucket))],
                            self.cardinality),
             r |-> TRUE]
       ELSE [c |-> self, r |-> FALSE]

RECURSIVE BitmapContainer_remove_values(_, _)
\* BitmapContainer::remove_values: filter(|v| self.remove(*v)).count()
BitmapContainer_remove_values(self, values) ==
    IF values = <<>> THEN [c |-> self, r |-> 0]
    ELSE LET one == BitmapContainer_remove(self, Head(values))
             rest == BitmapContainer_remove_values(one.c, Tail(values))
         IN [c |-> rest.c, r |-> (IF one.r THEN 1 ELSE 0) + rest.r]

RECURSIVE BitmapContainer_from_iter_loop(_, _)
BitmapContainer_from_iter_loop(bitmap_container, items) ==
    IF items = <<>> THEN bitmap_container
    ELSE BitmapContainer_from_iter_loop(BitmapContainer_add(bitmap_container, Head(items)).c,
                                        Tail(items))

\* BitmapContainer::from_iter
BitmapContainer_from_iter(items) == BitmapContainer_from_iter_loop(BitmapContainer_new, items)

\* BitmapContainer::cardinality: the cached field
BitmapContainer_cardinality(self) == self.cardinality

RECURSIVE BitmapIterator_next(_, _, _)
\* BitmapIterator::next from the cursor (bucket_idx, bit_idx): the item
\* returned (None at the end) and the cursor after the call
BitmapIterator_next(bitmap, bucket_idx, bit_idx) ==
    IF bucket_idx < BITMAP_SIZE
    THEN LET bucket == bitmap[bucket_idx + 1]
         IN IF bit_idx < U64_BITS /\ bucket # 0
            THEN IF BitSet(bucket, bit_idx)
                 THEN [item |-> bucket_idx * U64_BITS + bit_idx,
                       bucket_idx |-> bucket_idx, bit_idx |-> bit_idx + 1]
                 ELSE BitmapIterator_next(bitmap, bucket_idx, bit_idx + 1)
            ELSE BitmapIterator_next(bitmap, bucket_idx + 1, 0)
    ELSE [item |-> None, bucket_idx |-> bucket_idx, bit_idx |-> bit_idx]

RECURSIVE BitmapIterator_collect(_, _, _)
\* the items a BitmapIterator yields from a cursor until it returns None
BitmapIterator_collect(bitmap, bucket_idx, bit_idx) ==
    LET n == BitmapIterator_next(bitmap, bucket_idx, bit_idx)
    IN IF n.item = None THEN <<>>
       ELSE <<n.item>> \o BitmapIterator_collect(bitmap, n.bucket_idx, n.bit_idx)

\* BitmapContainer::iter, as the vector of the items it yields
BitmapContainer_iter(self) == BitmapIterator_collect(self.bitmap, 0, 0)

\* BitmapContainer::contains
BitmapContainer_contains(self, key) ==
    LET p == find_position_in_bitmap(key)
    IN is_one_at_position(self, p.bucket, p.idx_inside_bucket)

\* BitmapContainer::is_empty: the cached field
BitmapContainer_is_empty(self) == self.cardinality = 0

\* BitmapContainer::minimum: self.iter().next()
BitmapContainer_minimum(self) == BitmapIterator_next(self.bitmap, 0, 0).item

\* BitmapContainer::maximum
BitmapContainer_maximum(self) ==
    IF \E i \in 1 .. BITMAP_SIZE : self.bitmap[i] # 0
    THEN LET bucket_idx == (CHOOSE i \in 1 .. BITMAP_SIZE :
                              self.bitmap[i] # 0 /\ \A k \in (i + 1) .. BITMAP_SIZE : self.bitmap[k] = 0) - 1
             bit == (U64_BITS - 1) - leading_zeros(self.bitmap[bucket_idx + 1])
         IN bucket_idx * U64_BITS + bit
    ELSE None

-----------------------------------------------------------------------------
(* enum Container { Array, Bitmap }: the dispatch and the pairwise operations *)

\* ArrayContainer::upgrade
ArrayContainer_upgrade(self) == BitmapContainer_from_iter(ArrayContainer_iter(self))

\* Container::add
Container_add(self, value) ==
    IF self.kind = "Array"
    THEN LET a == ArrayContainer_add(self, value)
         IN IF ArrayContainer_should_upgrade(a.c)
            THEN [c |-> ArrayContainer_upgrade(a.c), r |-> a.r]
            ELSE a
    ELSE BitmapContainer_add(self, value)

\* Container::remove
Container_remove(self, value) ==
    IF self.kind = "Array" THEN ArrayContainer_remove(self, value)
    ELSE BitmapContainer_remove(self, value)

\* Container::remove_values
Container_remove_values(self, values) ==
    IF self.kind = "Array" THEN ArrayContainer_remove_values(self, values)
    ELSE BitmapContainer_remove_values(self, values)

\* Container::cardinality
Container_cardinality(self) ==
    IF self.kind = "Array" THEN ArrayContainer_cardinality(self)
    ELSE BitmapContainer_cardinality(self)

\* Container::iter
Container_iter(self) ==
    IF self.kind = "Array" THEN ArrayContainer_iter(self) ELSE BitmapContainer_iter(self)

\* Container::contains
Container_contains(self, value) ==
    IF self.kind = "Array" THEN ArrayContainer_contains(self, value)
    ELSE BitmapContainer_contains(self, value)

\* Container::is_empty
Container_is_empty(self) ==
    IF self.kind = "Array" THEN ArrayContainer_is_empty(self) ELSE BitmapContainer_is_empty(self)

\* Container::minimum
Container_minimum(self) ==
    IF self.kind = "Array" THEN ArrayContainer_minimum(self) ELSE BitmapContainer_minimum(self)

\* Container::maximum
Container_maximum(self) ==
    IF self.kind = "Array" THEN ArrayContainer_maximum(self) ELSE BitmapContainer_maximum(self)

Min2(a, b) == IF a <= b THEN a ELSE b
Max2(a, b) == IF a >= b THEN a ELSE b

\* has_overlap: the four unwrap() panic on a container without elements
has_overlap(container_a, container_b) ==
    LET self_min == Container_minimum(container_a)
        self_max == Container_maximum(container_a)
        other_min == Container_minimum(container_b)
        other_max == Container_maximum(container_b)
    IN IF None \in {self_min, self_max, other_min, other_max}
       THEN [panic |-> TRUE, v |-> FALSE]
       ELSE [panic |-> FALSE, v |-> Max2(self_min, other_min) <= Min2(self_max, other_max)]

\* BitmapContainer::should_downgrade
BitmapContainer_should_downgrade(self) == self.cardinality < ARRAY_MAX_SIZE

\* BitmapContainer::downgrade
BitmapContainer_downgrade(self) == ArrayOf(BitmapContainer_iter(self))

\* BitmapContainer::to_best_container
BitmapContainer_to_best_container(self) ==
    IF BitmapContainer_should_downgrade(self) THEN BitmapContainer_downgrade(self) ELSE self

\* ArrayContainer::to_best_container
ArrayContainer_to_best_container(self) ==
    IF ArrayContainer_should_upgrade(self) THEN ArrayContainer_upgrade(self) ELSE self

\* the cardinality the word loops of union / intersect / difference /
\* symmetric_difference add up: the sum of count_ones over the words
PopCount(bitmap) == SeqSum([i \in 1 .. BITMAP_SIZE |-> count_ones(bitmap[i])])

RECURSIVE add_all(_, _)
\* for_each(|v| { union_bitmap.add(v); }) over a vector
add_all(bitmap_container, items) ==
    IF items = <<>> THEN bitmap_container
    ELSE add_all(BitmapContainer_add(bitmap_container, Head(items)).c, Tail(items))

\* mutant of BitmapContainer::union_with_array_container: the array's values
\* are not added
BitmapContainer_union_with_array_container_no_add(self, array_container) ==
    BitmapOf(self.bitmap, BitmapContainer_cardinality(self))

\* BitmapContainer::union_with_array_container: starts from the cached
\* cardinality of self
BitmapContainer_union_with_array_container(self, array_container) ==
    add_all(BitmapOf(self.bitmap, BitmapContainer_cardinality(self)), array_container.array)

\* BitmapContainer::union
BitmapContainer_union(self, other) ==
    IF other.kind = "Array"
    THEN BitmapContainer_union_with_array_container(self, other)
    ELSE LET union_bitmap == [i \in 1 .. BITMAP_SIZE |-> BitOr(self.bitmap[i], other.bitmap[i])]
         IN BitmapOf(union_bitmap, PopCount(union_bitmap))

\* ArrayContainer::union
ArrayContainer_union(self, other) ==
    IF other.kind = "Array"
    THEN LET union_set == Elems(self.array) \cup Elems(other.array)
         IN IF Cardinality(union_set) >= ARRAY_MAX_SIZE
            THEN BitmapContainer_from_iter(SortedSeq(union_set))
            ELSE ArrayOf(SortedSeq(union_set))
    ELSE BitmapContainer_union_with_array_container(other, self)

\* Container::union
Container_union(self, other) ==
    IF self.kind = "Array" THEN ArrayContainer_union(self, other)
    ELSE BitmapContainer_union(self, other)

RECURSIVE intersect_with_array_loop(_, _, _)
\* the for loop of BitmapContainer::intersect_with_array_container
intersect_with_array_loop(self, items, intersection) ==
    IF items = <<>> THEN intersection
    ELSE intersect_with_array_loop(self, Tail(items),
            IF BitmapContainer_contains(self, Head(items))
            THEN Container_add(intersection, Head(items)).c
            ELSE intersection)

\* BitmapContainer::intersect_with_array_container
BitmapContainer_intersect_with_array_container(self, array_container) ==
    intersect_with_array_loop(self, array_container.array, ArrayContainer_new)

\* BitmapContainer::intersect
BitmapContainer_intersect(self, other) ==
    IF other.kind = "Array"
    THEN BitmapContainer_intersect_with_array_container(self, other)
    ELSE LET bitmap == [i \in 1 .. BITMAP_SIZE |-> BitAnd(self.bitmap[i], other.bitmap[i])]
             bitmap_container == BitmapOf(bitmap, PopCount(bitmap))
         IN IF BitmapContainer_should_downgrade(bitmap_container)
            THEN BitmapContainer_downgrade(bitmap_container)
            ELSE bitmap_container

\* ArrayContainer::intersect
ArrayContainer_intersect(self, other) ==
    IF other.kind = "Array"
    THEN LET set == Elems(self.array)
         IN ArrayOf(SelectSeq(other.array, LAMBDA v : v \in set))
    ELSE BitmapContainer_intersect_with_array_container(other, self)

\* Container::intersect
Container_intersect(self, other) ==
    LET overlap == has_overlap(self, other)
    IN IF overlap.panic THEN PanicContainer
       ELSE IF overlap.v
            THEN (IF self.kind = "Array" THEN ArrayContainer_intersect(self, other)
                  ELSE BitmapContainer_intersect(self, other))
            ELSE ArrayContainer_new

\* ArrayContainer::difference
ArrayContainer_difference(self, container) ==
    IF container.kind = "Array"
    THEN LET set == Elems(container.array)
         IN ArrayOf(SelectSeq(self.array, LAMBDA v : v \notin set))
    ELSE ArrayOf(SelectSeq(self.array, LAMBDA v : ~BitmapContainer_contains(container, v)))

\* mutant of BitmapContainer::difference: self is returned as it is
BitmapContainer_difference_keep_all(self, other) ==
    BitmapContainer_to_best_container(BitmapOf(self.bitmap, PopCount(self.bitmap)))

\* BitmapContainer::difference
BitmapContainer_difference(self, other) ==
    IF other.kind = "Array"
    THEN ArrayContainer_to_best_container(
            ArrayOf(SelectSeq(BitmapContainer_iter(self),
                              LAMBDA v : ~ArrayContainer_contains(other, v))))
    ELSE LET difference_bitmap ==
                [i \in 1 .. BITMAP_SIZE |-> BitAndNot(self.bitmap[i], other.bitmap[i])]
         IN BitmapContainer_to_best_container(
                BitmapOf(difference_bitmap, PopCount(difference_bitmap)))

\* Container::difference
Container_difference(self, other) ==
    IF self.kind = "Array" THEN ArrayContainer_difference(self, other)
    ELSE BitmapContainer_difference(self, other)

\* BitmapContainer::symmetric_difference_with_array_container: the elements of
\* self that are not in other, then the elements of other that self contains,
\* sorted
BitmapContainer_symmetric_difference_with_array_container(self, other) ==
    LET set_a == Elems(ArrayContainer_iter(other))
        kept == SelectSeq(BitmapContainer_iter(self), LAMBDA v : v \notin set_a)
        pushed == SortedSeq({v \in set_a : BitmapContainer_contains(self, v)})
    IN ArrayContainer_to_best_container(ArrayOf(VecSort(kept \o pushed)))

\* BitmapContainer::symmetric_difference
BitmapContainer_symmetric_difference(self, other) ==
    IF other.kind = "Array"
    THEN BitmapContainer_symmetric_difference_with_array_container(self, other)
    ELSE LET bitmap == [i \in 1 .. BITMAP_SIZE |-> BitXor(self.bitmap[i], other.bitmap[i])]
         IN BitmapContainer_to_best_container(BitmapOf(bitmap, PopCount(bitmap)))

\* ArrayContainer::symmetric_difference
ArrayContainer_symmetric_difference(self, other) ==
    IF other.kind = "Array"
    THEN LET set_a == Elems(ArrayContainer_iter(other))
             set_b == Elems(ArrayContainer_iter(self))
             sym_diff == SortedSeq((set_a \ set_b) \cup (set_b \ set_a))
         IN ArrayContainer_to_best_container(ArrayOf(sym_diff))
    ELSE BitmapContainer_symmetric_difference_with_array_container(other, self)

\* Container::symmetric_difference
Container_symmetric_difference(self, other) ==
    IF self.kind = "Array" THEN ArrayContainer_symmetric_difference(self, other)
    ELSE BitmapContainer_symmetric_difference(self, other)

-----------------------------------------------------------------------------
(* usize arithmetic of the cached total: a debug build panics on overflow,   *)
(* a release build wraps                                                     *)

UsizeModulus == 2 ^ USIZE_BITS
IsizeMax == 2 ^ (USIZE_BITS - 1) - 1

\* a += b on usize
UsizeAdd(a, b) == [v |-> (a + b) % UsizeModulus, overflow |-> a + b >= UsizeModulus]

\* a -= b on usize
UsizeSub(a, b) == [v |-> (a - b + UsizeModulus) % UsizeModulus, overflow |-> a < b]

-----------------------------------------------------------------------------
(* RoaringBitmap { containers: BTreeMap<u16, Container>, cardinality: usize } *)
(* containers is a function on Keys; a key the map does not hold maps to    *)
(* Absent                                                                    *)

Absent == [kind |-> "Absent"]

\* BTreeMap::contains_key
contains_key(containers, key) == containers[key].kind # "Absent"

\* RoaringBitmap::new
RoaringBitmap_new == [containers |-> [k \in Keys |-> Absent], cardinality |-> 0]

\* RoaringBitmap::add: [bm: the bitmap after the call, r: the value returned,
\* overflow: the cached total overflowed]
RoaringBitmap_add(self, number) ==
    LET kv == split_into_key_value(number)
        a == IF contains_key(self.containers, kv.key)
             THEN Container_add(self.containers[kv.key], kv.value)
             ELSE ArrayContainer_add(ArrayContainer_new, kv.value)
        sum == UsizeAdd(self.cardinality, 1)
    IN [bm |-> [containers |-> [self.containers EXCEPT ![kv.key] = a.c],
                cardinality |-> IF a.r THEN sum.v ELSE self.cardinality],
        r |-> a.r,
        overflow |-> a.r /\ sum.overflow]

\* mutant of RoaringBitmap::remove: the cached total is not decremented
RoaringBitmap_remove_no_decrement(self, number) ==
    LET kv == split_into_key_value(number)
        d == IF contains_key(self.containers, kv.key)
             THEN Container_remove(self.containers[kv.key], kv.value)
             ELSE [c |-> Absent, r |-> FALSE]
    IN [bm |-> [containers |-> [self.containers EXCEPT ![kv.key] = d.c],
                cardinality |-> self.cardinality],
        r |-> d.r,
        overflow |-> FALSE]

\* RoaringBitmap::remove
RoaringBitmap_remove(self, number) ==
    LET kv == split_into_key_value(number)
        d == IF contains_key(self.containers, kv.key)
             THEN Container_remove(self.containers[kv.key], kv.value)
             ELSE [c |-> Absent, r |-> FALSE]
        diff == UsizeSub(self.cardinality, 1)
    IN [bm |-> [containers |-> [self.containers EXCEPT ![kv.key] = d.c],
                cardinality |-> IF d.r THEN diff.v ELSE self.cardinality],
        r |-> d.r,
        overflow |-> d.r /\ diff.overflow]

\* the values remove_range collects for one key: the low parts of the
\* numbers of start .. end-1 with that key, ascending
key_values(key, start, end) ==
    LET S == {n \in start .. (end - 1) : split_into_key_value(n).key = key}
    IN SortedSeq({split_into_key_value(n).value : n \in S})

RECURSIVE remove_range_loop(_, _, _, _)
\* the for loop of RoaringBitmap::remove_range over the keys of key_values_map
remove_range_loop(self, keys, start, end) ==
    IF keys = <<>> THEN [bm |-> self, overflow |-> FALSE]
    ELSE LET key == Head(keys)
             values == key_values(key, start, end)
         IN IF values # <<>> /\ contains_key(self.containers, key)
            THEN LET d == Container_remove_values(self.containers[key], values)
                     diff == UsizeSub(self.cardinality, d.r)
                     rest == remove_range_loop(
                                [containers |-> [self.containers EXCEPT ![key] = d.c],
                                 cardinality |-> diff.v],
                                Tail(keys), start, end)
                 IN [bm |-> rest.bm, overflow |-> diff.overflow \/ rest.overflow]
            ELSE remove_range_loop(self, Tail(keys), start, end)

\* RoaringBitmap::remove_range(start..end)
RoaringBitmap_remove_range(self, start, end) ==
    remove_range_loop(self, SortedSeq(Keys), start, end)

RECURSIVE remove_each(_, _, _)
\* for n in start..end { self.remove(n) }: the bitmap after the calls, and
\* whether a decrement of the cached total overflowed
remove_each(self, start, end) ==
    IF start >= end THEN [bm |-> self, overflow |-> FALSE]
    ELSE LET one == RoaringBitmap_remove(self, start)
             rest == remove_each(one.bm, start + 1, end)
         IN [bm |-> rest.bm, overflow |-> one.overflow \/ rest.overflow]

\* RoaringBitmap::cardinality
RoaringBitmap_cardinality(self) == self.cardinality

\* RoaringBitmap::contains
RoaringBitmap_contains(self, number) ==
    LET kv == split_into_key_value(number)
    IN IF contains_key(self.containers, kv.key)
       THEN Container_contains(self.containers[kv.key], kv.value)
       ELSE FALSE

RECURSIVE add_each(_, _)
\* for x in .. { roaring_bitmap.add(x); }
add_each(roaring_bitmap, items) ==
    IF items = <<>> THEN roaring_bitmap
    ELSE add_each(RoaringBitmap_add(roaring_bitmap, Head(items)).bm, Tail(items))

\* RoaringBitmap::from_range(start..end)
RoaringBitmap_from_range(start, end) ==
    add_each(RoaringBitmap_new, SortedSeq(start .. (end - 1)))

\* impl FromIterator<u32> for RoaringBitmap: sort, then add one by one
RoaringBitmap_from_iter(items) == add_each(RoaringBitmap_new, VecSort(items))

RECURSIVE to_array_loop(_, _)
\* the for loop of RoaringBitmap::to_array over the containers, keys ascending
to_array_loop(self, keys) ==
    IF keys = <<>> THEN <<>>
    ELSE LET key == Head(keys)
             here == IF contains_key(self.containers, key)
                     THEN LET items == Container_iter(self.containers[key])
                          IN [i \in 1 .. Len(items) |-> compute_u32(key, items[i])]
                     ELSE <<>>
         IN here \o to_array_loop(self, Tail(keys))

\* RoaringBitmap::to_array: Vec::<u32>::with_capacity(self.cardinality) panics
\* (capacity overflow) when 4 * cardinality bytes exceed isize::MAX
RoaringBitmap_to_array(self) ==
    IF self.cardinality * 4 > IsizeMax
    THEN [panic |-> TRUE, v |-> <<>>]
    ELSE [panic |-> FALSE, v |-> to_array_loop(self, SortedSeq(Keys))]

-----------------------------------------------------------------------------
(* set algebra: [panic: the call panicked, bm: the bitmap returned]          *)

Returned(bitmap) == [panic |-> FALSE, bm |-> bitmap]
Panicked == [panic |-> TRUE, bm |-> RoaringBitmap_new]

\* the sum of cardinality() over the containers a result holds
SumCardinality(containers) ==
    SeqSum([i \in 1 .. (MaxKey + 1) |->
              IF contains_key(containers, i - 1)
              THEN Container_cardinality(containers[i - 1]) ELSE 0])

\* RoaringBitmap::union
RoaringBitmap_union(self, other) ==
    LET containers ==
            [key \in Keys |->
                IF contains_key(other.containers, key)
                THEN IF contains_key(self.containers, key)
                     THEN Container_union(self.containers[key], other.containers[key])
                     ELSE other.containers[key]
                ELSE self.containers[key]]
    IN Returned([containers |-> containers, cardinality |-> SumCardinality(containers)])

\* RoaringBitmap::intersection: a container is inserted for every common key
RoaringBitmap_intersection(self, other) ==
    LET containers ==
            [key \in Keys |->
                IF contains_key(self.containers, key) /\ contains_key(other.containers, key)
                THEN Container_intersect(self.containers[key], other.containers[key])
                ELSE Absent]
    IN IF \E key \in Keys : containers[key].kind = "Panic"
       THEN Panicked
       ELSE Returned([containers |-> containers, cardinality |-> SumCardinality(containers)])

\* RoaringBitmap::difference
RoaringBitmap_difference(self, other) ==
    LET containers ==
            [key \in Keys |->
                IF ~contains_key(self.containers, key) THEN Absent
                ELSE IF ~contains_key(other.containers, key) THEN self.containers[key]
                ELSE Container_difference(self.containers[key], other.containers[key])]
    IN Returned([containers |-> containers, cardinality |-> SumCardinality(containers)])

\* RoaringBitmap::symmetric_difference: for a key of self that other does not
\* hold, other.containers[&key] panics; the cached total is never updated
RoaringBitmap_symmetric_difference(self, other) ==
    LET containers ==
            [key \in Keys |->
                IF contains_key(self.containers, key)
                THEN Container_symmetric_difference(self.containers[key], other.containers[key])
                ELSE other.containers[key]]
    IN IF \E key \in Keys :
            contains_key(self.containers, key) /\ ~contains_key(other.containers, key)
       THEN Panicked
       ELSE Returned([containers |-> containers, cardinality |-> 0])

-----------------------------------------------------------------------------
(* queries of the containers: select, rank, intersects, is_subset            *)

\* ArrayContainer::select: self.array.get(idx)
ArrayContainer_select(self, idx) ==
    IF idx < Len(self.array) THEN self.array[idx + 1] ELSE None

RECURSIVE BitmapContainer_select_loop(_, _, _, _, _)
\* the two nested while loops of BitmapContainer::select
BitmapContainer_select_loop(bitmap, idx, bucket_idx, bit_idx, current_idx) ==
    IF bucket_idx < BITMAP_SIZE
    THEN LET bucket == bitmap[bucket_idx + 1]
         IN IF bit_idx < U64_BITS /\ bucket # 0
            THEN IF current_idx + count_ones(bucket) < idx + 1
                 THEN BitmapContainer_select_loop(bitmap, idx, bucket_idx + 1, 0,
                                                  current_idx + count_ones(bucket))
                 ELSE IF BitSet(bucket, bit_idx)
                      THEN IF current_idx = idx
                           THEN bucket_idx * U64_BITS + bit_idx
                           ELSE BitmapContainer_select_loop(bitmap, idx, bucket_idx,
                                                            bit_idx + 1, current_idx + 1)
                      ELSE BitmapContainer_select_loop(bitmap, idx, bucket_idx,
                                                       bit_idx + 1, current_idx)
            ELSE BitmapContainer_select_loop(bitmap, idx, bucket_idx + 1, 0, current_idx)
    ELSE None

\* BitmapContainer::select
BitmapContainer_select(self, idx) == BitmapContainer_select_loop(self.bitmap, idx, 0, 0, 0)

\* Container::select
Container_select(self, idx) ==
    IF self.kind = "Array" THEN ArrayContainer_select(self, idx)
    ELSE BitmapContainer_select(self, idx)

\* mutant of ArrayContainer::rank: the values up to and including value
ArrayContainer_rank_inclusive(self, value) ==
    Cardinality({i \in 1 .. Len(self.array) : self.array[i] <= value})

\* ArrayContainer::rank: binary_search(&value).unwrap_or_else(|i| i)
ArrayContainer_rank(self, value) == binary_search(self.array, value).idx

RECURSIVE BitmapContainer_rank_loop(_, _, _, _)
\* the for loop of BitmapContainer::rank over the buckets, from bucket i
BitmapContainer_rank_loop(bitmap, value, i, smaller) ==
    IF i >= BITMAP_SIZE THEN smaller
    ELSE LET bucket == bitmap[i + 1]
         IN IF (i + 1) * U64_BITS < value
            THEN BitmapContainer_rank_loop(bitmap, value, i + 1, smaller + count_ones(bucket))
            ELSE smaller + Cardinality({j \in 0 .. (value - i * U64_BITS - 1) : BitSet(bucket, j)})

\* BitmapContainer::rank
BitmapContainer_rank(self, value) == BitmapContainer_rank_loop(self.bitmap, value, 0, 0)

\* Container::rank
Container_rank(self, value) ==
    IF self.kind = "Array" THEN ArrayContainer_rank(self, value)
    ELSE BitmapContainer_rank(self, value)

\* what a query returns: [panic: the call panicked, v: the value returned]
Value(v) == [panic |-> FALSE, v |-> v]
QueryPanic == [panic |-> TRUE, v |-> FALSE]

\* BitmapContainer::intersects_with_array_container
BitmapContainer_intersects_with_array_container(self, array_container) ==
    LET self_min == BitmapContainer_minimum(self)
        other_min == ArrayContainer_minimum(array_container)
    IN IF self_min = None \/ other_min = None THEN QueryPanic
       ELSE LET max_v == Max2(self_min, other_min)
                other_idx == binary_search(array_container.array, max_v).idx
            IN Value(\E i \in (other_idx + 1) .. Len(array_container.array) :
                        BitmapContainer_contains(self, array_container.array[i]))

\* BitmapContainer::intersects
BitmapContainer_intersects(self, other) ==
    IF other.kind = "Array"
    THEN BitmapContainer_intersects_with_array_container(self, other)
    ELSE LET self_min == BitmapContainer_minimum(self)
             other_min == BitmapContainer_minimum(other)
         IN IF self_min = None \/ other_min = None THEN QueryPanic
            ELSE LET max_v == Max2(self_min, other_min)
                     bucket == find_position_in_bitmap(max_v).bucket
                 IN Value(\E i \in bucket .. (BITMAP_SIZE - 1) :
                             BitAnd(self.bitmap[i + 1], other.bitmap[i + 1]) # 0)

RECURSIVE ArrayContainer_intersects_loop(_, _, _, _)
\* the merge loop of ArrayContainer::intersects over the two arrays
ArrayContainer_intersects_loop(array, other_array, self_idx, other_idx) ==
    IF self_idx >= Len(array) \/ other_idx >= Len(other_array) THEN FALSE
    ELSE LET self_v == array[self_idx + 1]
             other_v == other_array[other_idx + 1]
         IN IF self_v = other_v THEN TRUE
            ELSE IF self_v < other_v
                 THEN ArrayContainer_intersects_loop(array, other_array, self_idx + 1, other_idx)
                 ELSE ArrayContainer_intersects_loop(array, other_array, self_idx, other_idx + 1)

\* ArrayContainer::intersects
ArrayContainer_intersects(self, other) ==
    IF other.kind = "Array"
    THEN LET self_min == ArrayContainer_minimum(self)
             other_min == ArrayContainer_minimum(other)
         IN IF self_min = None \/ other_min = None THEN QueryPanic
            ELSE LET max_v == Min2(self_min, other_min)
                 IN Value(ArrayContainer_intersects_loop(
                              self.array, other.array,
                              binary_search(self.array, max_v).idx,
                              binary_search(other.array, max_v).idx))
    ELSE BitmapContainer_intersects_with_array_container(other, self)

\* Container::intersects
Container_intersects(self, other) ==
    LET overlap == has_overlap(self, other)
    IN IF overlap.panic THEN QueryPanic
       ELSE IF overlap.v
            THEN (IF self.kind = "Array" THEN ArrayContainer_intersects(self, other)
                  ELSE BitmapContainer_intersects(self, other))
            ELSE Value(FALSE)

\* ArrayContainer::is_subset
ArrayContainer_is_subset(self, other) ==
    IF other.kind = "Array"
    THEN IF ArrayContainer_cardinality(self) > Container_cardinality(other) THEN FALSE
         ELSE \A i \in 1 .. Len(self.array) : self.array[i] \in Elems(other.array)
    ELSE \A i \in 1 .. Len(self.array) : BitmapContainer_contains(other, self.array[i])

\* BitmapContainer::is_subset: false for every Array container
BitmapContainer_is_subset(self, other) ==
    IF other.kind = "Array" THEN FALSE
    ELSE IF BitmapContainer_cardinality(self) > Container_cardinality(other) THEN FALSE
         ELSE \A i \in 1 .. BITMAP_SIZE :
                 self.bitmap[i] = BitAnd(self.bitmap[i], other.bitmap[i])

\* Container::is_subset
Container_is_subset(self, other) ==
    IF self.kind = "Array" THEN ArrayContainer_is_subset(self, other)
    ELSE BitmapContainer_is_subset(self, other)

-----------------------------------------------------------------------------
(* queries of RoaringBitmap                                                  *)

\* the keys of the map, ascending (the order BTreeMap iterates in)
keys(self) == SortedSeq({key \in Keys : contains_key(self.containers, key)})

\* RoaringBitmap::minimum: the minimum of the container of the first key
RoaringBitmap_minimum(self) ==
    IF keys(self) = <<>> THEN None
    ELSE LET key == Head(keys(self))
             minimum == Container_minimum(self.containers[key])
         IN IF minimum = None THEN None ELSE compute_u32(key, minimum)

\* RoaringBitmap::maximum: the maximum of the container of the last key
RoaringBitmap_maximum(self) ==
    IF keys(self) = <<>> THEN None
    ELSE LET key == keys(self)[Len(keys(self))]
             maximum == Container_maximum(self.containers[key])
         IN IF maximum = None THEN None ELSE compute_u32(key, maximum)

RECURSIVE intersects_any(_, _, _)
\* the any() of RoaringBitmap::intersects over the keys both maps hold: it
\* stops at the first pair of containers that intersects
intersects_any(self, other, ks) ==
    IF ks = <<>> THEN Value(FALSE)
    ELSE LET k == Head(ks)
         IN IF ~contains_key(self.containers, k)
            THEN intersects_any(self, other, Tail(ks))
            ELSE LET one == Container_intersects(other.containers[k], self.containers[k])
                 IN IF one.panic \/ one.v THEN one
                    ELSE intersects_any(self, other, Tail(ks))

\* RoaringBitmap::intersects
RoaringBitmap_intersects(self, other) == intersects_any(self, other, keys(other))

RECURSIVE select_loop(_, _, _)
\* the for loop of RoaringBitmap::select over the containers
select_loop(self, ks, idx) ==
    IF ks = <<>> THEN None
    ELSE LET key == Head(ks)
             container == self.containers[key]
         IN IF idx < Container_cardinality(container)
            THEN LET v == Container_select(container, idx)
                 IN IF v = None THEN None ELSE compute_u32(key, v)
            ELSE select_loop(self, Tail(ks), idx - Container_cardinality(container))

\* RoaringBitmap::select
RoaringBitmap_select(self, idx) == select_loop(self, keys(self), idx)

\* RoaringBitmap::is_subset
RoaringBitmap_is_subset(self, other) ==
    \A key \in Keys :
        contains_key(self.containers, key) =>
            /\ contains_key(other.containers, key)
            /\ Container_is_subset(self.containers[key], other.containers[key])

RECURSIVE rank_loop(_, _, _, _, _)
\* the for loop of RoaringBitmap::rank over the containers
rank_loop(self, ks, target_key, value, smaller) ==
    IF ks = <<>> THEN smaller
    ELSE LET key == Head(ks)
             container == self.containers[key]
         IN IF key < target_key
            THEN rank_loop(self, Tail(ks), target_key, value,
                           smaller + Container_cardinality(container))
            ELSE smaller + Container_rank(container, value)

\* RoaringBitmap::rank
RoaringBitmap_rank(self, value) ==
    LET kv == split_into_key_value(value)
    IN rank_loop(self, keys(self), kv.key, kv.value, 0)

-----------------------------------------------------------------------------
(* RoaringBitmapIter { outer_iter, current_inner }: outer_iter is the keys    *)
(* not yet visited, current_inner the key and the iterator of its container  *)

NoInner == [kind |-> "None"]

\* Some((high_16, container.iter())): an Array container's slice iterator is
\* at position pos, a Bitmap container's BitmapIterator at (bucket_idx, bit_idx)
InnerOf(key, container) ==
    [kind |-> container.kind, key |-> key, container |-> container,
     pos |-> 0, bucket_idx |-> 0, bit_idx |-> 0]

\* inner.next(): the item (None at the end) and the inner iterator after it
inner_next(inner) ==
    IF inner.kind = "Array"
    THEN IF inner.pos < Len(inner.container.array)
         THEN [item |-> inner.container.array[inner.pos + 1],
               inner |-> [inner EXCEPT !.pos = @ + 1]]
         ELSE [item |-> None, inner |-> inner]
    ELSE LET n == BitmapIterator_next(inner.container.bitmap, inner.bucket_idx, inner.bit_idx)
         IN [item |-> n.item,
             inner |-> [inner EXCEPT !.bucket_idx = n.bucket_idx, !.bit_idx = n.bit_idx]]

\* RoaringBitmapIter::new
RoaringBitmapIter_new(bitmap) ==
    LET ks == keys(bitmap)
    IN [containers |-> bitmap.containers,
        outer_iter |-> IF ks = <<>> THEN <<>> ELSE Tail(ks),
        current_inner |-> IF ks = <<>> THEN NoInner
                          ELSE InnerOf(Head(ks), bitmap.containers[Head(ks)])]

RECURSIVE RoaringBitmapIter_next(_)
\* RoaringBitmapIter::next: the item returned (None at the end) and the
\* iterator after the call
RoaringBitmapIter_next(self) ==
    LET low == IF self.current_inner.kind = "None"
               THEN [item |-> None, inner |-> NoInner]
               ELSE inner_next(self.current_inner)
    IN IF low.item # None
       THEN [item |-> compute_u32(self.current_inner.key, low.item),
             iter |-> [self EXCEPT !.current_inner = low.inner]]
       ELSE IF self.outer_iter = <<>>
            THEN [item |-> None, iter |-> [self EXCEPT !.current_inner = low.inner]]
            ELSE LET hi == Head(self.outer_iter)
                 IN RoaringBitmapIter_next(
                        [self EXCEPT !.outer_iter = Tail(self.outer_iter),
                                     !.current_inner = InnerOf(hi, self.containers[hi])])

-----------------------------------------------------------------------------
(* The program: two bitmaps A and B that any sequence of public calls        *)
(* builds, the bitmap the last set-algebra call returned, and what the last  *)
(* call was and returned.                                                    *)

VARIABLES
    bm,        \* bm["A"], bm["B"]: the two bitmaps
    res,       \* what the last set-algebra call A.op(B) returned
    last,      \* the last call: op, on which bitmap, the boolean it returned,
               \* and whether its argument was an element before the call
    snap,      \* the last add(n): what it returned, to_array() and
               \* cardinality() before it and cardinality() after it; kept
               \* while the next call is remove(n) or add(n) on that bitmap.
               \* After remove_range(start..end): what remove(n) for each n
               \* of the range makes of the bitmap it was called on
    derived,   \* derived[w]: bm[w] was returned by a set-algebra call
    nops,      \* number of mutating calls made
    panicked,  \* a call panicked: the program has stopped
    build,     \* "release" once an overflow of the cached total has wrapped
               \* (overflow checks are off); "any" before
    it         \* the iterator bm[it.who].iter() while it is alive: its state,
               \* the items next() has returned, how often next() returned
               \* None, and whether an item was returned after a None

vars == <<bm, res, last, snap, derived, nops, panicked, build, it>>

Who == {"A", "B"}

NoRes == [panic |-> FALSE, bm |-> RoaringBitmap_new]
NoIt == [live |-> FALSE, who |-> "A", iter |-> RoaringBitmapIter_new(RoaringBitmap_new),
         yielded |-> <<>>, nones |-> 0, after_none |-> FALSE]
NoSnap == [stage |-> "none", who |-> "A", n |-> 0, first |-> FALSE,
           arr |-> [panic |-> FALSE, v |-> <<>>], card |-> 0, card1 |-> 0,
           elems |-> {}]
Call(op, w, ret, wasIn) == [op |-> op, who |-> w, ret |-> ret, wasIn |-> wasIn]

\* the elements a bitmap holds: what iterating its containers yields
Contents(self) == Elems(to_array_loop(self, SortedSeq(Keys)))

\* the vectors from_iter is called with: the numbers at the boundary of two
\* keys, in any order, duplicates included
IterItems == {0, ContainerSize - 1, ContainerSize}
IterInputs == [1 .. IterLen -> IterItems]

\* the ranges start..end that from_range and remove_range are called with
Ranges == {<<start, start + RangeLen>> : start \in 0 .. (Cardinality(Numbers) - RangeLen)}

\* the ranges from_range is called with: those, the longest 0..n that stays
\* an Array container and the shortest 0..n that spans two keys
FromRanges == Ranges \cup {<<0, ARRAY_MAX_SIZE - 1>>, <<0, ContainerSize + 1>>}

\* what an overflow of the cached total can do: a build with overflow checks
\* panics, a build without them wraps; one program is one build
Outcomes(overflow) ==
    IF ~overflow THEN {"ok"}
    ELSE IF build = "any" THEN {"panic", "wrap"}
    ELSE {"wrap"}

Init ==
    /\ bm = [w \in Who |-> RoaringBitmap_new]
    /\ res = NoRes
    /\ last = Call("new", "A", FALSE, FALSE)
    /\ snap = NoSnap
    /\ derived = [w \in Who |-> FALSE]
    /\ nops = 0
    /\ panicked = FALSE
    /\ build = "any"
    /\ it = NoIt

\* a mutating call on bm[w] ends: either it panicked on the overflow, or
\* bm[w] is the bitmap after the call
Mutate(w, after, overflow, call, newsnap) ==
    \E outcome \in Outcomes(overflow) :
        /\ panicked' = (outcome = "panic")
        /\ build' = IF outcome = "wrap" THEN "release" ELSE build
        /\ bm' = IF outcome = "panic" THEN bm ELSE [bm EXCEPT ![w] = after]
        /\ last' = call
        /\ snap' = newsnap
        /\ res' = NoRes
        /\ nops' = nops + 1
        /\ UNCHANGED <<derived, it>>

\* bm[w].add(n)
Add(w, n) ==
    /\ ~panicked
    /\ ~it.live
    /\ nops < MaxOps
    /\ LET a == RoaringBitmap_add(bm[w], n)
       IN Mutate(w, a.bm, a.overflow,
                 Call("add", w, a.r, n \in Contents(bm[w])),
                 IF snap.stage = "added" /\ snap.who = w /\ snap.n = n
                 THEN [snap EXCEPT !.stage = "readded"]
                 ELSE [stage |-> "added", who |-> w, n |-> n, first |-> a.r,
                       arr |-> RoaringBitmap_to_array(bm[w]),
                       card |-> RoaringBitmap_cardinality(bm[w]),
                       card1 |-> RoaringBitmap_cardinality(a.bm),
                       elems |-> {}])

\* bm[w].remove(n)
Remove(w, n) ==
    /\ ~panicked
    /\ ~it.live
    /\ nops < MaxOps
    /\ LET d == RoaringBitmap_remove(bm[w], n)
       IN Mutate(w, d.bm, d.overflow,
                 Call("remove", w, d.r, n \in Contents(bm[w])),
                 IF snap.stage = "added" /\ snap.first /\ snap.who = w /\ snap.n = n
                 THEN [snap EXCEPT !.stage = "removed"]
                 ELSE NoSnap)

\* bm[w].remove_range(start..end)
RemoveRange(w, start, end) ==
    /\ ~panicked
    /\ ~it.live
    /\ nops < MaxOps
    /\ LET d == RoaringBitmap_remove_range(bm[w], start, end)
           each == remove_each(bm[w], start, end)
           inside == Contents(bm[w]) \cap (start .. (end - 1))
       IN Mutate(w, d.bm, d.overflow, Call("remove_range", w, FALSE, FALSE),
                 [stage |-> "range", who |-> w, n |-> start, first |-> each.overflow,
                  arr |-> RoaringBitmap_to_array(each.bm),
                  card |-> RoaringBitmap_cardinality(each.bm),
                  card1 |-> RoaringBitmap_cardinality(bm[w]) - Cardinality(inside),
                  elems |-> Contents(bm[w]) \ inside])

\* bm[w] = RoaringBitmap::from_range(start..end)
FromRange(w, start, end) ==
    /\ ~panicked
    /\ ~it.live
    /\ nops < MaxOps
    /\ bm[w] = RoaringBitmap_new
    /\ bm' = [bm EXCEPT ![w] = RoaringBitmap_from_range(start, end)]
    /\ derived' = [derived EXCEPT ![w] = FALSE]
    /\ last' = Call("from_range", w, FALSE, FALSE)
    /\ snap' = NoSnap
    /\ res' = NoRes
    /\ nops' = nops + 1
    /\ UNCHANGED <<panicked, build, it>>

\* bm[w] = RoaringBitmap::from_iter(items)
FromIter(w, items) ==
    /\ ~panicked
    /\ ~it.live
    /\ nops < MaxOps
    /\ bm[w] = RoaringBitmap_new
    /\ bm' = [bm EXCEPT ![w] = RoaringBitmap_from_iter(items)]
    /\ derived' = [derived EXCEPT ![w] = FALSE]
    /\ last' = Call("from_iter", w, FALSE, FALSE)
    /\ snap' = NoSnap
    /\ res' = NoRes
    /\ nops' = nops + 1
    /\ UNCHANGED <<panicked, build, it>>

\* a set-algebra call A.op(B) returns r, or panics
Algebra(op, r) ==
    /\ ~panicked
    /\ ~it.live
    /\ res' = r
    /\ panicked' = r.panic
    /\ last' = Call(op, "A", FALSE, FALSE)
    /\ snap' = NoSnap
    /\ UNCHANGED <<bm, derived, nops, build, it>>

\* res = bm["A"].union(&bm["B"]), also &A | &B
Union == Algebra("union", RoaringBitmap_union(bm["A"], bm["B"]))

\* res = bm["A"].intersection(&bm["B"]), also &A & &B
Intersection == Algebra("intersection", RoaringBitmap_intersection(bm["A"], bm["B"]))

\* res = bm["A"].difference(&bm["B"]), also &A - &B
Difference == Algebra("difference", RoaringBitmap_difference(bm["A"], bm["B"]))

\* res = bm["A"].symmetric_difference(&bm["B"])
SymmetricDifference ==
    Algebra("symmetric_difference", RoaringBitmap_symmetric_difference(bm["A"], bm["B"]))

AlgebraOps == {"union", "intersection", "difference", "symmetric_difference"}

\* bm[w] = res: the bitmap a set-algebra call returned becomes an operand
Move(w) ==
    /\ ~panicked
    /\ ~it.live
    /\ nops < MaxOps
    /\ last.op \in AlgebraOps
    /\ bm' = [bm EXCEPT ![w] = res.bm]
    /\ derived' = [derived EXCEPT ![w] = TRUE]
    /\ last' = Call("move", w, FALSE, FALSE)
    /\ snap' = NoSnap
    /\ res' = NoRes
    /\ nops' = nops + 1
    /\ UNCHANGED <<panicked, build, it>>

\* it = bm[w].iter(): the iterator borrows the bitmap; the program then only
\* calls next() on it
Iter(w) ==
    /\ ~panicked
    /\ ~it.live
    /\ it' = [live |-> TRUE, who |-> w, iter |-> RoaringBitmapIter_new(bm[w]),
              yielded |-> <<>>, nones |-> 0, after_none |-> FALSE]
    /\ last' = Call("iter", w, FALSE, FALSE)
    /\ snap' = NoSnap
    /\ res' = NoRes
    /\ UNCHANGED <<bm, derived, nops, panicked, build>>

\* it.next(), also after it has returned None
IterNext ==
    /\ it.live
    /\ it.nones < MaxNones
    /\ LET n == RoaringBitmapIter_next(it.iter)
       IN it' = [it EXCEPT !.iter = n.iter,
                           !.yielded = IF n.item = None THEN @ ELSE Append(@, n.item),
                           !.nones = IF n.item = None THEN @ + 1 ELSE @,
                           !.after_none = @ \/ (n.item # None /\ it.nones > 0)]
    /\ UNCHANGED <<bm, res, last, snap, derived, nops, panicked, build>>

Next ==
    \/ \E w \in Who, n \in Numbers : Add(w, n)
    \/ \E w \in Who, n \in Numbers : Remove(w, n)
    \/ \E w \in Who, range \in Ranges : RemoveRange(w, range[1], range[2])
    \/ \E w \in Who, range \in FromRanges : FromRange(w, range[1], range[2])
    \/ \E w \in Who, items \in IterInputs : FromIter(w, items)
    \/ Union
    \/ Intersection
    \/ Difference
    \/ SymmetricDifference
    \/ \E w \in Who : Move(w)
    \/ \E w \in Who : Iter(w)
    \/ IterNext

Spec == Init /\ [][Next]_vars

-----------------------------------------------------------------------------
(* What the claims speak of                                                  *)

A == bm["A"]
B == bm["B"]

\* the last call was a set-algebra call and it returned a bitmap
AlgebraReturned == last.op \in AlgebraOps /\ ~res.panic

\* every bitmap the program holds: the operands and a returned result
Bitmaps == {A, B} \cup (IF AlgebraReturned THEN {res.bm} ELSE {})

\* to_array() returns, and returns exactly the numbers of S
ToArrayIs(self, S) ==
    LET a == RoaringBitmap_to_array(self)
    IN ~a.panic /\ Elems(a.v) = S

StrictlyAscending(v) == \A i \in 1 .. Len(v), j \in 1 .. Len(v) : i < j => v[i] < v[j]

\* a container of the bitmap is a Bitmap whose cached cardinality is not the
\* number of its set bits (an element was removed from it)
HasStaleBitmap(self) ==
    \E key \in Keys : /\ self.containers[key].kind = "Bitmap"
                      /\ self.containers[key].cardinality # PopCount(self.containers[key].bitmap)

\* a key of the bitmap has a container of this kind
HasKind(self, kind) == \E key \in Keys : self.containers[key].kind = kind

\* the map holds a container without elements
HasEmptyContainer(self) ==
    \E key \in Keys : /\ contains_key(self.containers, key)
                      /\ Container_iter(self.containers[key]) = <<>>

\* C1: after res = A.union(B), to_array(res) holds exactly the numbers that
\* are in A or in B.
C1_UnionIsSetUnion ==
    last.op = "union" =>
        /\ ~res.panic
        /\ ToArrayIs(res.bm, Contents(A) \cup Contents(B))

\* C1 witness: a union of a Bitmap container that lost an element with an
\* Array container of the same key, each side holding a number the other
\* does not.
C1_Witness ==
    /\ last.op = "union" /\ ~res.panic
    /\ \E key \in Keys : /\ A.containers[key].kind = "Bitmap"
                         /\ B.containers[key].kind = "Array"
    /\ HasStaleBitmap(A)
    /\ Contents(A) \ Contents(B) # {}
    /\ Contents(B) \ Contents(A) # {}

\* C2: after res = A.intersection(B), the call has returned and to_array(res)
\* holds exactly the numbers that are both in A and in B.
C2_IntersectionIsSetIntersection ==
    last.op = "intersection" =>
        /\ ~res.panic
        /\ ToArrayIs(res.bm, Contents(A) \cap Contents(B))

\* C3: after res = A.difference(B), to_array(res) holds exactly the numbers
\* that are in A and not in B.
C3_DifferenceIsSetDifference ==
    last.op = "difference" =>
        /\ ~res.panic
        /\ ToArrayIs(res.bm, Contents(A) \ Contents(B))

\* C3 witness: a difference that removes some and keeps some numbers of a
\* Bitmap container of A, B holding a container for the same key.
C3_Witness ==
    /\ last.op = "difference" /\ ~res.panic
    /\ \E key \in Keys : /\ A.containers[key].kind = "Bitmap"
                         /\ contains_key(B.containers, key)
    /\ Contents(A) \cap Contents(B) # {}
    /\ Contents(A) \ Contents(B) # {}

\* C4: after res = A.symmetric_difference(B), the call has returned and
\* to_array(res) holds exactly the numbers that are in exactly one of A, B.
C4_SymmetricDifferenceIsSetSymmetricDifference ==
    last.op = "symmetric_difference" =>
        /\ ~res.panic
        /\ ToArrayIs(res.bm, (Contents(A) \ Contents(B)) \cup (Contents(B) \ Contents(A)))

\* C5: for a bitmap built by from_range / from_iter / add / remove /
\* remove_range alone, cardinality() is the length of to_array().
C5_CardinalityIsLength ==
    \A w \in Who :
        ~derived[w] =>
            LET a == RoaringBitmap_to_array(bm[w])
            IN ~a.panic /\ RoaringBitmap_cardinality(bm[w]) = Len(a.v)

\* C5 witness: after a remove or remove_range that took elements out of a
\* Bitmap container (whose own cached cardinality is then stale) and left
\* others in the bitmap.
C5_Witness ==
    /\ last.op \in {"remove", "remove_range"}
    /\ ~derived[last.who]
    /\ HasStaleBitmap(bm[last.who])
    /\ HasKind(bm[last.who], "Array")
    /\ RoaringBitmap_cardinality(bm[last.who]) > 0

\* C6: the bitmap a set-algebra call returns has cardinality() equal to the
\* length of its to_array().
C6_ResultCardinalityIsLength ==
    AlgebraReturned =>
        LET a == RoaringBitmap_to_array(res.bm)
        IN ~a.panic /\ RoaringBitmap_cardinality(res.bm) = Len(a.v)

\* C7: for every bitmap the program holds and every number n, to_array()
\* returns and contains(n) is true iff n occurs in it.
C7_ContainsIffInToArray ==
    \A self \in Bitmaps :
        LET a == RoaringBitmap_to_array(self)
        IN /\ ~a.panic
           /\ \A n \in Numbers : RoaringBitmap_contains(self, n) <=> n \in Elems(a.v)

\* C8: add(n) returns, and returns true iff n was not an element before the
\* call; remove(n) returns, and returns true iff n was an element before; an
\* add(n) that follows an add(n) returns false and leaves cardinality() as
\* it was.
C8_AddRemoveReturn ==
    /\ last.op = "add" => ~panicked /\ last.ret = ~last.wasIn
    /\ last.op = "remove" => ~panicked /\ last.ret = last.wasIn
    /\ snap.stage = "readded" =>
          /\ ~panicked
          /\ ~last.ret
          /\ RoaringBitmap_cardinality(bm[snap.who]) = snap.card1

\* C9: add(n) that returned true followed by remove(n): remove returns true
\* and to_array() and cardinality() are what they were before the add.
C9_AddThenRemoveRestores ==
    snap.stage = "removed" =>
        /\ ~panicked
        /\ last.ret
        /\ RoaringBitmap_to_array(bm[snap.who]) = snap.arr
        /\ RoaringBitmap_cardinality(bm[snap.who]) = snap.card

\* C9 witness: the add upgraded the Array container of n's key to a Bitmap,
\* and the remove has taken n out of that Bitmap.
C9_Witness ==
    /\ snap.stage = "removed"
    /\ ~snap.arr.panic
    /\ bm[snap.who].containers[split_into_key_value(snap.n).key].kind = "Bitmap"
    /\ snap.card = ARRAY_MAX_SIZE - 1

\* C10: for every bitmap the program holds, to_array() returns a strictly
\* ascending vector.
C10_ToArrayStrictlyAscending ==
    \A self \in Bitmaps :
        LET a == RoaringBitmap_to_array(self)
        IN ~a.panic /\ StrictlyAscending(a.v)

\* the indexes select is asked for, and the values rank is asked for: every
\* number of the model and one past them
Indexes == 0 .. Cardinality(Numbers)
RankValues == 0 .. Cardinality(Numbers)

\* the number of elements of S that are at most v
NumberOf(S, v) == Cardinality({x \in S : x <= v})

\* C11: for every bitmap the program holds and every index i, to_array()
\* returns, and select(i) is to_array()[i] when i is less than the number of
\* elements and None otherwise.
C11_SelectIsIthSmallest ==
    \A self \in Bitmaps :
        LET a == RoaringBitmap_to_array(self)
        IN /\ ~a.panic
           /\ \A i \in Indexes :
                 RoaringBitmap_select(self, i) = IF i < Len(a.v) THEN a.v[i + 1] ELSE None

\* C12: for every bitmap the program holds and every v, rank(v) is the number
\* of elements x with x <= v.
C12_RankCountsLessOrEqual ==
    \A self \in Bitmaps :
        \A v \in RankValues : RoaringBitmap_rank(self, v) = NumberOf(Contents(self), v)

\* C13: a bitmap that from_range or from_iter has just built and that holds
\* exactly 0 .. n-1 has rank(v) = min(v, n) for every v.
C13_RankOnPrefix ==
    \A n \in Indexes :
        (/\ last.op \in {"from_range", "from_iter"}
         /\ Contents(bm[last.who]) = 0 .. (n - 1))
        => \A v \in RankValues : RoaringBitmap_rank(bm[last.who], v) = Min2(v, n)

\* C13 witness: from_range has built 0 .. n-1 over two keys, the first in a
\* Bitmap and the second in an Array container.
C13_Witness ==
    /\ last.op = "from_range"
    /\ \E n \in Indexes : n > ContainerSize /\ Contents(bm[last.who]) = 0 .. (n - 1)
    /\ HasKind(bm[last.who], "Bitmap")
    /\ HasKind(bm[last.who], "Array")

\* C14: for every bitmap the program holds, minimum() is the smallest and
\* maximum() the largest element if there is one, and both are None if there
\* is none.
C14_MinimumMaximum ==
    \A self \in Bitmaps :
        LET S == Contents(self)
        IN IF S = {}
           THEN RoaringBitmap_minimum(self) = None /\ RoaringBitmap_maximum(self) = None
           ELSE /\ RoaringBitmap_minimum(self) = CHOOSE x \in S : \A y \in S : x <= y
                /\ RoaringBitmap_maximum(self) = CHOOSE x \in S : \A y \in S : x >= y

\* C15: for all bitmaps the program holds, self.is_subset(other) is true iff
\* every element of self is an element of other, iff the union has the
\* elements of other, iff the intersection has the elements of self.
C15_IsSubset ==
    \A self \in Bitmaps, other \in Bitmaps :
        LET u == RoaringBitmap_union(self, other)
            i == RoaringBitmap_intersection(self, other)
        IN /\ RoaringBitmap_is_subset(self, other) <=> Contents(self) \subseteq Contents(other)
           /\ RoaringBitmap_is_subset(self, other) <=>
                 (~u.panic /\ Contents(u.bm) = Contents(other))
           /\ RoaringBitmap_is_subset(self, other) <=>
                 (~i.panic /\ Contents(i.bm) = Contents(self))

\* C16: for all bitmaps the program holds, self.intersects(other) returns,
\* and returns true iff the two share an element.
C16_Intersects ==
    \A self \in Bitmaps, other \in Bitmaps :
        LET r == RoaringBitmap_intersects(self, other)
        IN ~r.panic /\ (r.v <=> Contents(self) \cap Contents(other) # {})

\* C17: no call panics: no mutation, no set-algebra call, and on every bitmap
\* the program holds neither to_array() nor intersects().
C17_NoPanic ==
    /\ ~panicked
    /\ \A self \in Bitmaps :
          /\ ~RoaringBitmap_to_array(self).panic
          /\ \A other \in Bitmaps : ~RoaringBitmap_intersects(self, other).panic

\* C18: after remove_range(start..end) the call has returned, to_array() and
\* cardinality() are what remove(n) for every n of the range gives, the
\* elements are those that were outside the range, and cardinality() has
\* dropped by the number of elements that were inside it.
C18_RemoveRangeIsRemoveEach ==
    snap.stage = "range" =>
        /\ ~panicked
        /\ RoaringBitmap_to_array(bm[snap.who]) = snap.arr
        /\ RoaringBitmap_cardinality(bm[snap.who]) = snap.card
        /\ Contents(bm[snap.who]) = snap.elems
        /\ RoaringBitmap_cardinality(bm[snap.who]) = snap.card1

\* two bitmaps hold the same elements and keep some key in different
\* representations, one in an Array and one in a Bitmap container
SameElementsOtherRepresentation(x, y) ==
    /\ Contents(x) = Contents(y)
    /\ \E key \in Keys : {x.containers[key].kind, y.containers[key].kind} = {"Array", "Bitmap"}

\* the elements of the bitmap a set-algebra call returned, or that it panicked
Outcome(r) == IF r.panic THEN [panic |-> TRUE, elems |-> {}]
              ELSE [panic |-> FALSE, elems |-> Contents(r.bm)]

\* C19: two bitmaps the program holds that have the same elements in
\* different representations answer every query alike, and every set-algebra
\* call with the same other operand returns the same elements for both.
C19_RepresentationInvariance ==
    \A x \in Bitmaps, y \in Bitmaps :
        SameElementsOtherRepresentation(x, y) =>
            /\ \A n \in Numbers : RoaringBitmap_contains(x, n) = RoaringBitmap_contains(y, n)
            /\ RoaringBitmap_cardinality(x) = RoaringBitmap_cardinality(y)
            /\ RoaringBitmap_minimum(x) = RoaringBitmap_minimum(y)
            /\ RoaringBitmap_maximum(x) = RoaringBitmap_maximum(y)
            /\ \A v \in RankValues : RoaringBitmap_rank(x, v) = RoaringBitmap_rank(y, v)
            /\ \A i \in Indexes : RoaringBitmap_select(x, i) = RoaringBitmap_select(y, i)
            /\ RoaringBitmap_to_array(x) = RoaringBitmap_to_array(y)
            /\ \A other \in Bitmaps :
                  /\ RoaringBitmap_intersects(x, other) = RoaringBitmap_intersects(y, other)
                  /\ RoaringBitmap_is_subset(x, other) = RoaringBitmap_is_subset(y, other)
                  /\ RoaringBitmap_is_subset(other, x) = RoaringBitmap_is_subset(other, y)
                  /\ Outcome(RoaringBitmap_union(x, other)) = Outcome(RoaringBitmap_union(y, other))
                  /\ Outcome(RoaringBitmap_intersection(x, other)) =
                        Outcome(RoaringBitmap_intersection(y, other))
                  /\ Outcome(RoaringBitmap_difference(x, other)) =
                        Outcome(RoaringBitmap_difference(y, other))
                  /\ Outcome(RoaringBitmap_symmetric_difference(x, other)) =
                        Outcome(RoaringBitmap_symmetric_difference(y, other))

\* s is the beginning of t
IsPrefix(s, t) == Len(s) <= Len(t) /\ \A i \in 1 .. Len(s) : s[i] = t[i]

\* C20: to_array() of the iterated bitmap returns; what next() has yielded so
\* far is the beginning of it, and all of it once next() has returned None;
\* and after a None next() never returns an item.
C20_IterIsToArray ==
    it.live =>
        LET a == RoaringBitmap_to_array(bm[it.who])
        IN /\ ~a.panic
           /\ IsPrefix(it.yielded, a.v)
           /\ it.nones > 0 => it.yielded = a.v
           /\ ~it.after_none

\* the elements a container holds
ContainerElems(container) == Elems(Container_iter(container))

\* C21: for every bitmap the program holds (operands built by add, remove,
\* remove_range, and a returned set-algebra result) the cached total is the
\* sum of cardinality() over its containers.
C21_TotalIsSumOfContainers ==
    \A self \in Bitmaps : RoaringBitmap_cardinality(self) = SumCardinality(self.containers)

\* C22: in every bitmap the program holds, the cached cardinality of every
\* Bitmap container is the number of bits set in its words.
C22_CachedPopcount ==
    \A self \in Bitmaps : ~HasStaleBitmap(self)

\* C23: after remove or remove_range the bitmap holds no container without
\* elements, and neither does a bitmap that intersection, difference or
\* symmetric_difference returned.
C23_NoEmptyContainer ==
    /\ (last.op \in {"remove", "remove_range"} /\ ~panicked)
          => ~HasEmptyContainer(bm[last.who])
    /\ (AlgebraReturned /\ last.op \in {"intersection", "difference", "symmetric_difference"})
          => ~HasEmptyContainer(res.bm)

\* C25: every Bitmap container of a bitmap that a set-algebra call returned
\* holds at least ARRAY_MAX_SIZE elements.
C25_DowngradeRule ==
    AlgebraReturned =>
        \A key \in Keys :
            res.bm.containers[key].kind = "Bitmap"
                => Cardinality(ContainerElems(res.bm.containers[key])) >= ARRAY_MAX_SIZE

\* C26: when the bitmap has no container for the key of v, rank(v) is the sum
\* of the cardinalities of the containers with a smaller key.
C26_RankOfAbsentKey ==
    \A self \in Bitmaps, v \in RankValues :
        LET target_key == split_into_key_value(v).key
        IN (target_key \notin Keys \/ ~contains_key(self.containers, target_key)) =>
              RoaringBitmap_rank(self, v) =
                  SeqSum([i \in 1 .. (MaxKey + 1) |->
                            IF i - 1 < target_key /\ contains_key(self.containers, i - 1)
                            THEN Container_cardinality(self.containers[i - 1]) ELSE 0])

\* C27: for a Bitmap container on the left and an Array container on the
\* right of the same key, is_subset of the containers is true exactly when
\* every element of the left is in the right, and so is is_subset of two
\* bitmaps that hold only that key.
C27_BitmapSubsetOfArray ==
    \A self \in Bitmaps, other \in Bitmaps, key \in Keys :
        (self.containers[key].kind = "Bitmap" /\ other.containers[key].kind = "Array") =>
            /\ Container_is_subset(self.containers[key], other.containers[key])
                  <=> ContainerElems(self.containers[key]) \subseteq ContainerElems(other.containers[key])
            /\ (/\ keys(self) = <<key>>
                /\ ContainerElems(self.containers[key]) \subseteq ContainerElems(other.containers[key]))
                  => RoaringBitmap_is_subset(self, other)

\* C28: the symmetric difference of a Bitmap container and an Array container
\* of the same key, in either order, holds exactly the elements that are in
\* one of them and not in the other.
C28_BitmapArraySymmetricDifference ==
    \A self \in Bitmaps, other \in Bitmaps, key \in Keys :
        ({self.containers[key].kind, other.containers[key].kind} = {"Array", "Bitmap"}) =>
            LET a == ContainerElems(self.containers[key])
                b == ContainerElems(other.containers[key])
            IN ContainerElems(Container_symmetric_difference(self.containers[key],
                                                             other.containers[key]))
                  = (a \ b) \cup (b \ a)

\* C30: the cached total never underflows: no remove or remove_range panics
\* on the subtraction, and no subtraction has wrapped.
C30_NoUnderflow ==
    /\ last.op \in {"remove", "remove_range"} => ~panicked
    /\ build = "any"

\* no Array container of the bitmap holds ARRAY_MAX_SIZE elements or more
ArraysBelowMax(self) ==
    \A key \in Keys :
        self.containers[key].kind = "Array"
            => ArrayContainer_cardinality(self.containers[key]) < ARRAY_MAX_SIZE

\* the step is an add to bitmap w that brought the Array container of the key
\* from ARRAY_MAX_SIZE - 1 to ARRAY_MAX_SIZE elements
AddFillsArray(w, key) ==
    /\ last'.op = "add" /\ last'.who = w /\ last'.ret /\ ~panicked'
    /\ bm[w].containers[key].kind = "Array"
    /\ ArrayContainer_cardinality(bm[w].containers[key]) = ARRAY_MAX_SIZE - 1
    /\ bm'[w].containers[key] # bm[w].containers[key]

\* C24: no Array container of a bitmap the program holds (operands and
\* returned set-algebra results) has ARRAY_MAX_SIZE elements or more, and the
\* add that brings an Array container to ARRAY_MAX_SIZE elements leaves, in
\* the same step, a Bitmap container with those elements and cardinality
\* ARRAY_MAX_SIZE.
C24_UpgradeRule ==
    /\ [](\A self \in Bitmaps : ArraysBelowMax(self))
    /\ [][\A w \in Who, key \in Keys :
            AddFillsArray(w, key) =>
                LET before == bm[w].containers[key]
                    after == bm'[w].containers[key]
                IN /\ after.kind = "Bitmap"
                   /\ after.cardinality = ARRAY_MAX_SIZE
                   /\ PopCount(after.bitmap) = ARRAY_MAX_SIZE
                   /\ ContainerElems(before) \subseteq ContainerElems(after)]_vars

\* an add has just replaced an Array container of ARRAY_MAX_SIZE - 1 elements
\* by a Bitmap container of ARRAY_MAX_SIZE elements
C24_Witness ==
    /\ last.op = "add" /\ last.ret /\ ~panicked
    /\ snap.stage = "added" /\ snap.who = last.who
    /\ ~snap.arr.panic
    /\ LET key == split_into_key_value(snap.n).key
           container == bm[last.who].containers[key]
       IN /\ container.kind = "Bitmap"
          /\ container.cardinality = ARRAY_MAX_SIZE
          /\ Cardinality({n \in Elems(snap.arr.v) : split_into_key_value(n).key = key})
                = ARRAY_MAX_SIZE - 1
          /\ Cardinality(ContainerElems(container)) = ARRAY_MAX_SIZE

\* C29: the buffer of every Array container of a bitmap the program holds
\* (operands after add, remove, remove_range, and returned set-algebra
\* results) is strictly ascending, so it has no duplicates.
C29_ArraysStrictlyAscending ==
    \A self \in Bitmaps, key \in Keys :
        self.containers[key].kind = "Array"
            => StrictlyAscending(self.containers[key].array)

\* a set-algebra call on a Bitmap container returned an Array container of
\* two elements or more
C29_Witness ==
    /\ AlgebraReturned
    /\ \E key \in Keys :
          /\ A.containers[key].kind = "Bitmap"
          /\ res.bm.containers[key].kind = "Array"
          /\ Len(res.bm.containers[key].array) >= 2

====
